---- MODULE Spec2Model ----
(***************************************************************************)
(* State-machine model of the stream reader of host_backend                *)
(* (UartReader in uart_reader.py; I2CReader in i2c_reader.py is the same   *)
(* code with _events_read in place of _lines_read).                        *)
(*                                                                         *)
(* One reader instance is modelled.  Every action is one run of code       *)
(* between two suspension points of the asyncio event loop: a coroutine    *)
(* runs without interruption until it awaits something that is not ready.  *)
(* asyncio.Queue is modelled by its item deque and its deque of getter     *)
(* futures; asyncio.wait_for is modelled as a timeout scope around an      *)
(* inline await (the timer cancels the awaiting coroutine, which sees the  *)
(* cancellation when it is next resumed).                                  *)
(*                                                                         *)
(* An event is identified by its ordinal of acceptance, which is the value *)
(* _lines_read takes when the line is accepted.                            *)
(***************************************************************************)
EXTENDS Integers, Sequences, FiniteSets, TLC

\* ------------------------------------------------------------- bounds ----
\* max_lines of the reader under study (the constructor's argument).
Capacity == 2
\* Events accepted in one run of the model.
MaxEvents == 4
\* Background tasks created in one run of the model.
MaxTasks == 2
\* Listener queues created in one run of the model.
MaxListeners == 2

\* Pieces (a character, a terminator, the prefix token) the byte string of one
\* connection is made of.
MaxPieces == 4

\* Connections made in one run of the model where each has its own body, and the
\* pieces the body of each is made of.
MaxConnections == 2
BodyPieces == 2

\* Push-relay handlers the server runs in one run of the model.
MaxHandlers == 2
\* Events accepted while the handlers are watched.
MaxRelayed == 1

\* Concurrent callers of drain() and of stop().
Callers == {1, 2}
Stoppers == {1}

Handles == 1..MaxListeners
\* A queue object that add_listener() never returned.
Foreign == 0

None == "None"

VARIABLES
    _agent_queue,    \* items of the bounded asyncio.Queue, oldest first
    getters,         \* asyncio.Queue._getters of _agent_queue: callers whose get() is suspended
    _ui_queues,      \* set of registered listener handles
    uiq,             \* uiq[h]: items of listener queue h, oldest first
    _task,           \* id of the task held in self._task, 0 for None
    tasks,           \* tasks[t]: [pc, cancel] of background task t
    _stop_event,     \* self._stop_event.is_set()
    _status,
    _last_error,
    _lines_read,
    _last_activity,
    dpc,             \* dpc[c]: where drain() caller c is suspended
    spc,             \* spc[s]: [pc, t]: where stop() caller s is suspended, and on which task
    \* ---- history (not read by any guard or assignment of the program state)
    evicted,         \* events removed from a full relay buffer
    drained,         \* concatenation of the results of all drain() calls, in return order
    mark,            \* _lines_read when drain() last returned
    received,        \* received[h]: every event ever put into listener queue h
    addedAt,         \* addedAt[h]: _lines_read when h was registered, -1 before
    removedAt,       \* removedAt[h]: _lines_read when h was first removed, -1 before
    last,            \* the operation that made the latest step, with what it returned
    \* ---- the byte stream of the connection and the framing loop
    wire,            \* bytes of the response body that were not read yet
    partial,         \* the local `partial` of _run: decoded text with no terminator yet
    sent,            \* (history) all the bytes of the response body
    framed,          \* (history) the lines the framing loop accepted, in order
    conns,           \* (history) connections made so far that were given a body
    \* the push-relay handlers of the server (websocket_uart, websocket_i2c)
    ws               \* per handler: where it is, and the listener queue it holds

prog == <<_agent_queue, getters, _ui_queues, uiq, _task, tasks, _stop_event,
          _status, _last_error, _lines_read, _last_activity, dpc, spc>>
hist == <<evicted, drained, mark, received, addedAt, removedAt, last>>
fram == <<wire, partial, sent, framed, conns>>
vars == <<prog, hist, fram, ws>>

Range(f) == {f[i] : i \in DOMAIN f}

\* ------------------------------------------------------ asyncio.Queue ----
full(q) == Len(q) >= Capacity
empty(q) == Len(q) = 0

\* Queue._wakeup_next(self._getters): pop waiters until one is not done, wake it.
\* A getter still in the deque is pending (its caller is "waiting") or was
\* cancelled by its timeout (its caller is "timedout").
RECURSIVE wakeup_next(_, _)
wakeup_next(g, pcs) ==
    IF g = <<>> THEN [g |-> g, pcs |-> pcs]
    ELSE IF pcs[Head(g)] = "waiting"
         THEN [g |-> Tail(g), pcs |-> [pcs EXCEPT ![Head(g)] = "woken"]]
         ELSE wakeup_next(Tail(g), pcs)

\* Queue.put_nowait(item): QueueFull leaves everything as it is.
put_nowait(q, g, pcs, item) ==
    IF full(q) THEN [q |-> q, g |-> g, pcs |-> pcs]
    ELSE LET w == wakeup_next(g, pcs)
         IN  [q |-> Append(q, item), g |-> w.g, pcs |-> w.pcs]

\* Queue.get_nowait(): QueueEmpty leaves the queue as it is.
get_nowait(q) == IF empty(q) THEN q ELSE Tail(q)

\* The removal of caller c's getter from the deque (Queue.get, except clause).
RemoveGetter(g, c) == SelectSeq(g, LAMBDA x : x # c)


\* ------------------------------------------------------------ history ----
\* What the latest step was and what it returned ("-": nothing of interest).
\*   op      the operation whose code ran to a return or to acceptance
\*   c       the caller (drain, stop), the task (accept), the handle (listeners)
\*   pre     the relay buffer before the step
\*   res     the list drain() returned
\*   via     where drain() returned from: "call" (it never suspended), or the
\*           state its suspended get() was resumed in
\*   e       the event accepted (0: none)
\*   m       _lines_read when drain() had last returned before this step
Op(op, c, pre, res, via, e, m) ==
    [op |-> op, c |-> c, pre |-> pre, res |-> res, via |-> via, e |-> e, m |-> m]
\* An operation that returns nothing of interest.
Ret(op, c) == Op(op, c, <<>>, <<>>, "-", 0, 0)
Nop == Ret("-", 0)

Init ==
    /\ _agent_queue = <<>>
    /\ getters = <<>>
    /\ _ui_queues = {}
    /\ uiq = <<>>
    /\ _task = 0
    /\ tasks = <<>>
    /\ _stop_event = FALSE
    /\ _status = "initialized"
    /\ _last_error = None
    /\ _lines_read = 0
    /\ _last_activity = "never"
    /\ dpc = [c \in Callers |-> "idle"]
    /\ spc = [s \in Stoppers |-> [pc |-> "idle", t |-> 0]]
    /\ evicted = {}
    /\ drained = <<>>
    /\ mark = 0
    /\ received = [h \in Handles |-> <<>>]
    /\ addedAt = [h \in Handles |-> -1]
    /\ removedAt = [h \in Handles |-> -1]
    /\ last = Nop
    /\ wire = <<>>
    /\ partial = <<>>
    /\ sent = <<>>
    /\ framed = <<>>
    /\ conns = 0
    /\ ws = <<>>

\* ---------------------------------------------------------- lifecycle ----
\* asyncio.Task.done() of task t.
done(t) == tasks[t].pc = "done"

\* (mutant) the test made on the stop flag as well, as is_running() makes it.
AlreadyRunning_unlessStopping == _task # 0 /\ ~done(_task) /\ ~_stop_event

\* The early-return test of ensure_running.
AlreadyRunning == _task # 0 /\ ~done(_task)

is_running == _task # 0 /\ ~done(_task) /\ ~_stop_event

\* (mutant) a restart makes a new relay buffer as it makes a new stop flag.
ensure_running_newQueue ==
    /\ IF AlreadyRunning
       THEN /\ UNCHANGED <<_stop_event, _task, tasks, _agent_queue>>
            /\ last' = Ret("ensure_running", 0)
       ELSE /\ Len(tasks) < MaxTasks
            /\ _stop_event' = FALSE
            /\ tasks' = Append(tasks, [pc |-> "created", cancel |-> FALSE])
            /\ _task' = Len(tasks) + 1
            /\ _agent_queue' = <<>>
            /\ last' = Ret("ensure_running", 0)
    /\ UNCHANGED <<getters, _ui_queues, uiq, _status, _last_error,
                   _lines_read, _last_activity, dpc, spc>>
    /\ UNCHANGED <<evicted, drained, mark, received, addedAt, removedAt>>
    /\ UNCHANGED <<fram, ws>>

ensure_running ==
    /\ IF AlreadyRunning
       THEN /\ UNCHANGED <<_stop_event, _task, tasks>>
            /\ last' = Ret("ensure_running", 0)
       ELSE /\ Len(tasks) < MaxTasks
            /\ _stop_event' = FALSE
            /\ tasks' = Append(tasks, [pc |-> "created", cancel |-> FALSE])
            /\ _task' = Len(tasks) + 1
            /\ last' = Ret("ensure_running", 0)
    /\ UNCHANGED <<_agent_queue, getters, _ui_queues, uiq, _status, _last_error,
                   _lines_read, _last_activity, dpc, spc>>
    /\ UNCHANGED <<evicted, drained, mark, received, addedAt, removedAt>>
    /\ UNCHANGED <<fram, ws>>

\* (mutant) stop() sets the flag and does not cancel the task.
cancel_none(ts, t) == ts

\* asyncio.Task.cancel(): a finished task is left alone, any other is marked and
\* sees CancelledError at the await it is suspended in (or before its first step).
cancel(ts, t) == IF ts[t].pc = "done" THEN ts ELSE [ts EXCEPT ![t].cancel = TRUE]

\* stop() up to its await; awaiting a finished task does not suspend.
stop_call(s) ==
    /\ spc[s].pc = "idle"
    /\ _stop_event' = TRUE
    /\ IF _task # 0
       THEN /\ tasks' = cancel(tasks, _task)
            /\ IF done(_task)
               THEN /\ _status' = "stopped"
                    /\ UNCHANGED spc
                    /\ last' = Ret("stop", s)
               ELSE /\ spc' = [spc EXCEPT ![s] = [pc |-> "waiting", t |-> _task]]
                    /\ UNCHANGED _status
                    /\ last' = Nop
       ELSE /\ _status' = "stopped"
            /\ UNCHANGED <<tasks, spc>>
            /\ last' = Ret("stop", s)
    /\ UNCHANGED <<_agent_queue, getters, _ui_queues, uiq, _task, _last_error,
                   _lines_read, _last_activity, dpc>>
    /\ UNCHANGED <<evicted, drained, mark, received, addedAt, removedAt>>
    /\ UNCHANGED <<fram, ws>>

\* The rest of stop() once its wait is over.
stop_return(s) ==
    /\ _status' = "stopped"
    /\ spc' = [spc EXCEPT ![s] = [pc |-> "idle", t |-> 0]]
    /\ last' = Ret("stop", s)
    /\ UNCHANGED <<_agent_queue, getters, _ui_queues, uiq, _task, tasks, _stop_event,
                   _last_error, _lines_read, _last_activity, dpc>>
    /\ UNCHANGED <<evicted, drained, mark, received, addedAt, removedAt>>
    /\ UNCHANGED <<fram, ws>>

\* The awaited task finished within the grace period.
stop_resume(s) ==
    /\ spc[s].pc = "waiting"
    /\ done(spc[s].t)
    /\ stop_return(s)

\* (mutant) the task awaited with no timeout.
GraceExpires_never(s) == FALSE

\* The grace period ran out: wait_for gives up, the shielded task is left as it is.
GraceExpires(s) == ~done(spc[s].t)

stop_timeout(s) ==
    /\ spc[s].pc = "waiting"
    /\ GraceExpires(s)
    /\ stop_return(s)


\* ------------------------------------------------------ listener set ----
add_listener ==
    /\ Len(uiq) < MaxListeners
    /\ LET q == Len(uiq) + 1
       IN  /\ uiq' = Append(uiq, <<>>)
           /\ _ui_queues' = _ui_queues \cup {q}
           /\ addedAt' = [addedAt EXCEPT ![q] = _lines_read]
           /\ last' = Ret("add_listener", q)
    /\ UNCHANGED <<_agent_queue, getters, _task, tasks, _stop_event, _status,
                   _last_error, _lines_read, _last_activity, dpc, spc>>
    /\ UNCHANGED <<evicted, drained, mark, received, removedAt>>
    /\ UNCHANGED <<fram, ws>>

\* (mutant) set.remove in place of set.discard: KeyError for a queue that is not in the set.
remove_listener_strict(q) ==
    /\ q \in _ui_queues
    /\ _ui_queues' = _ui_queues \ {q}
    /\ removedAt' = IF q \in Handles /\ removedAt[q] = -1
                    THEN [removedAt EXCEPT ![q] = _lines_read]
                    ELSE removedAt
    /\ last' = Ret("remove_listener", q)
    /\ UNCHANGED <<_agent_queue, getters, uiq, _task, tasks, _stop_event, _status,
                   _last_error, _lines_read, _last_activity, dpc, spc>>
    /\ UNCHANGED <<evicted, drained, mark, received, addedAt>>
    /\ UNCHANGED <<fram, ws>>

remove_listener(q) ==
    /\ _ui_queues' = _ui_queues \ {q}
    /\ removedAt' = IF q \in Handles /\ removedAt[q] = -1
                    THEN [removedAt EXCEPT ![q] = _lines_read]
                    ELSE removedAt
    /\ last' = Ret("remove_listener", q)
    /\ UNCHANGED <<_agent_queue, getters, uiq, _task, tasks, _stop_event, _status,
                   _last_error, _lines_read, _last_activity, dpc, spc>>
    /\ UNCHANGED <<evicted, drained, mark, received, addedAt>>
    /\ UNCHANGED <<fram, ws>>

\* ------------------------------------------------- push-relay handlers ----
\* websocket_uart / websocket_i2c.  A handler is suspended in the get() of its
\* wait_for ("waiting"), in send_text ("sending"), or has returned ("exited").
\* Of the histories only `received`, and in `last` the exit of a handler that found
\* the reader not running, are kept for them.

\* (mutant) the listener is removed on WebSocketDisconnect only, not in `finally`.
Finally_onDisconnect(h, why) ==
    IF why = "disconnect" THEN _ui_queues \ {ws[h].q} ELSE _ui_queues

\* `finally: uart_reader.remove_listener(queue)`
Finally(h, why) == _ui_queues \ {ws[h].q}

\* The handler leaves its loop for the reason `why` and returns; its queue, a local
\* of the handler, goes with it.
ws_exit(h, why) ==
    /\ _ui_queues' = Finally(h, why)
    /\ ws' = [ws EXCEPT ![h].pc = "exited"]
    /\ uiq' = [uiq EXCEPT ![ws[h].q] = <<>>]

\* `line = await asyncio.wait_for(queue.get(), timeout=1.0)` up to its suspension:
\* an item that is there is taken at once and send_text is awaited, otherwise the
\* handler waits.  `w` is the handler table and q the handler's queue.
ws_get(w, h, q) ==
    IF empty(uiq[q])
    THEN /\ ws' = [w EXCEPT ![h].pc = "waiting"]
         /\ uiq' = uiq
    ELSE /\ ws' = [w EXCEPT ![h].pc = "sending"]
         /\ uiq' = [uiq EXCEPT ![q] = get_nowait(uiq[q])]

WsFrame ==
    /\ UNCHANGED <<_agent_queue, getters, _task, tasks, _stop_event, _status,
                   _last_error, _lines_read, _last_activity, dpc, spc>>
    /\ UNCHANGED <<evicted, drained, mark, received, addedAt, removedAt>>
    /\ UNCHANGED fram

\* A client connects: accept() returns, the handler registers its listener and
\* waits for the first line.
ws_open ==
    /\ Len(ws) < MaxHandlers
    /\ Len(uiq) < MaxListeners
    /\ LET q == Len(uiq) + 1
           h == Len(ws) + 1
       IN  /\ uiq' = Append(uiq, <<>>)
           /\ _ui_queues' = _ui_queues \cup {q}
           /\ ws' = Append(ws, [pc |-> "waiting", q |-> q])
           /\ last' = Nop
    /\ WsFrame

\* The waiting get() is resumed with an item: the line is taken, send_text awaited.
ws_resume(h) ==
    /\ h \in DOMAIN ws /\ ws[h].pc = "waiting"
    /\ ~empty(uiq[ws[h].q])
    /\ ws_get(ws, h, ws[h].q)
    /\ last' = Nop
    /\ UNCHANGED _ui_queues
    /\ WsFrame

\* send_text returned: the loop goes round.
ws_send_ok(h) ==
    /\ h \in DOMAIN ws /\ ws[h].pc = "sending"
    /\ ws_get(ws, h, ws[h].q)
    /\ last' = Nop
    /\ UNCHANGED _ui_queues
    /\ WsFrame

\* send_text raised: WebSocketDisconnect when the client is gone, or another error.
ws_send_fail(h, why) ==
    /\ h \in DOMAIN ws /\ ws[h].pc = "sending"
    /\ ws_exit(h, why)
    /\ last' = Nop
    /\ WsFrame

\* The timeout of wait_for fired (an item put in the meantime stays in the queue):
\* `if not uart_reader.is_running(): break`, otherwise the loop goes round.
ws_timeout(h) ==
    /\ h \in DOMAIN ws /\ ws[h].pc = "waiting"
    /\ IF ~is_running
       THEN ws_exit(h, "not running")
       ELSE /\ ws_get(ws, h, ws[h].q)
            /\ UNCHANGED _ui_queues
    /\ last' = IF is_running THEN Nop
                ELSE Ret("ws_exit", h)
    /\ WsFrame

\* The server cancels the handler's task: CancelledError passes both except
\* clauses, `finally` runs.
ws_cancelled(h) ==
    /\ h \in DOMAIN ws /\ ws[h].pc \in {"waiting", "sending"}
    /\ ws_exit(h, "cancelled")
    /\ last' = Nop
    /\ WsFrame

\* -------------------------------------------------------- diagnostics ----
\* self.url: set by the constructor, never written again.
url == "http://10.0.0.104:8000/uart"

\* (mutant) the capacity of the relay buffer reported in place of its depth.
Snapshot_maxsize ==
    [status |-> _status, url |-> url, last_error |-> _last_error,
     lines_read_total |-> _lines_read, last_activity |-> _last_activity,
     agent_queue_size |-> Capacity,
     active_listeners |-> Cardinality(_ui_queues),
     task_running |-> _task # 0 /\ ~done(_task)]

\* The dict get_diagnostics() builds.
Snapshot ==
    [status |-> _status, url |-> url, last_error |-> _last_error,
     lines_read_total |-> _lines_read, last_activity |-> _last_activity,
     agent_queue_size |-> Len(_agent_queue),
     active_listeners |-> Cardinality(_ui_queues),
     task_running |-> _task # 0 /\ ~done(_task)]

get_diagnostics ==
    /\ last' = [op |-> "get_diagnostics", c |-> 0, pre |-> <<>>, res |-> <<>>,
                via |-> "-", e |-> 0, m |-> 0, diag |-> Snapshot]
    /\ UNCHANGED <<prog, evicted, drained, mark, received, addedAt, removedAt>>
    /\ UNCHANGED <<fram, ws>>

\* ------------------------------------------------- the background task ----
\* Control reaches `while not self._stop_event.is_set()` with the status st: the
\* task returns, or sets the status and suspends in session.get().
LoopTop(t, st) ==
    IF _stop_event
    THEN /\ tasks' = [tasks EXCEPT ![t] = [pc |-> "done", cancel |-> FALSE]]
         /\ _status' = st
    ELSE /\ tasks' = [tasks EXCEPT ![t].pc = "connecting"]
         /\ _status' = "connecting"

\* Task t is suspended at pc and no cancellation is pending for it.
At(t, pc) == t \in 1..Len(tasks) /\ tasks[t].pc = pc /\ ~tasks[t].cancel

\* What _run leaves alone outside the accept path.
RunFrame ==
    /\ UNCHANGED <<_agent_queue, getters, _ui_queues, uiq, _task, _stop_event,
                   _lines_read, dpc, spc>>
    /\ UNCHANGED <<evicted, drained, mark, received, addedAt, removedAt>>
    /\ UNCHANGED <<fram, ws>>
    /\ last' = Nop

\* First step of _run: "starting", then the loop test and "connecting".
run_start(t) ==
    /\ At(t, "created")
    /\ LoopTop(t, "starting")
    /\ UNCHANGED <<_last_error, _last_activity>>
    /\ RunFrame

\* (mutant) "connected" is set and the last error is kept.
run_connect_ok_keepError(t) ==
    /\ At(t, "connecting")
    /\ _status' = "connected"
    /\ tasks' = [tasks EXCEPT ![t].pc = "connected"]
    /\ UNCHANGED <<_last_error, _last_activity>>
    /\ RunFrame

\* The response arrived and raise_for_status() passed.
run_connect_ok(t) ==
    /\ At(t, "connecting")
    /\ _status' = "connected"
    /\ _last_error' = None
    /\ tasks' = [tasks EXCEPT ![t].pc = "connected"]
    /\ UNCHANGED _last_activity
    /\ RunFrame

\* (mutant) the exception is recorded and ends the task.
OnError_fatal(t) ==
    /\ _status' = "error"
    /\ _last_error' = "exc"
    /\ tasks' = [tasks EXCEPT ![t] = [pc |-> "done", cancel |-> FALSE]]

\* (mutant) `partial` is kept from one connection to the next.
NewPartial_kept == partial

\* `partial = ""` once the response arrived.
NewPartial == <<>>

\* The response arrived and raise_for_status() passed, with the body the server is
\* going to send on this connection; `sent` and `framed` start again with it.
run_connect_body(t, body) ==
    /\ At(t, "connecting")
    /\ conns < MaxConnections
    /\ _status' = "connected"
    /\ _last_error' = None
    /\ tasks' = [tasks EXCEPT ![t].pc = "connected"]
    /\ partial' = NewPartial
    /\ wire' = body
    /\ sent' = body
    /\ framed' = <<>>
    /\ conns' = conns + 1
    /\ UNCHANGED ws
    /\ UNCHANGED <<_agent_queue, getters, _ui_queues, uiq, _task, _stop_event,
                   _lines_read, _last_activity, dpc, spc>>
    /\ UNCHANGED <<evicted, drained, mark, received, addedAt, removedAt>>
    /\ last' = Nop

\* `except Exception`: the status and the error are set, the task sleeps.
OnError(t) ==
    /\ _status' = "error"
    /\ _last_error' = "exc"
    /\ tasks' = [tasks EXCEPT ![t].pc = "backoff"]

\* Connecting failed, or the response status was not 2xx.
run_connect_fail(t) ==
    /\ At(t, "connecting")
    /\ OnError(t)
    /\ UNCHANGED _last_activity
    /\ RunFrame

\* Reading the body raised (connection lost, sock_read timeout).
run_read_error(t) ==
    /\ At(t, "connected")
    /\ OnError(t)
    /\ UNCHANGED _last_activity
    /\ RunFrame

\* The server ended the stream: `async for` is exhausted, control is at the loop test.
run_stream_end(t) ==
    /\ At(t, "connected")
    /\ LoopTop(t, _status)
    /\ UNCHANGED <<_last_error, _last_activity>>
    /\ RunFrame

\* asyncio.sleep(1) is over: control is at the loop test.
run_backoff_done(t) ==
    /\ At(t, "backoff")
    /\ LoopTop(t, _status)
    /\ UNCHANGED <<_last_error, _last_activity>>
    /\ RunFrame

\* (mutant) CancelledError is caught by the generic handler as a connection error.
run_cancelled_asError(t) ==
    /\ t \in 1..Len(tasks)
    /\ tasks[t].cancel
    /\ tasks[t].pc # "done"
    /\ _status' = "error"
    /\ _last_error' = "exc"
    /\ tasks' = [tasks EXCEPT ![t] = [pc |-> "backoff", cancel |-> FALSE]]
    /\ UNCHANGED _last_activity
    /\ RunFrame

\* CancelledError is raised at the await the task is suspended in (or before its
\* first step) and ends the task.
run_cancelled(t) ==
    /\ t \in 1..Len(tasks)
    /\ tasks[t].cancel
    /\ tasks[t].pc # "done"
    /\ tasks' = [tasks EXCEPT ![t] = [pc |-> "done", cancel |-> FALSE]]
    /\ UNCHANGED <<_status, _last_error, _last_activity>>
    /\ RunFrame

\* (mutant) the newest entry is dropped instead of the oldest.
Evict_newest(q) == IF full(q) THEN SubSeq(q, 1, Len(q) - 1) ELSE q

\* (mutant) nothing is dropped, so the put on a full queue fails.
Evict_none(q) == q

\* The eviction of the tee: the oldest entry leaves a full relay buffer.
Evict(q) == IF full(q) THEN get_nowait(q) ELSE q

\* The tee to the relay buffer: drop the oldest if full, then put.
Tee(q, g, pcs, line) == put_nowait(Evict(q), g, pcs, line)

\* (mutant) the line is put into every queue ever created, registered or not.
Broadcast_stale(qs, listeners, line) == [h \in DOMAIN qs |-> Append(qs[h], line)]

\* The tee to the listeners: put the line into every registered queue.
Broadcast(qs, listeners, line) ==
    [h \in DOMAIN qs |-> IF h \in listeners THEN Append(qs[h], line) ELSE qs[h]]

\* (mutant) `await put(line)`: the tee waits while the relay buffer is full.
put_ready_blocking(q) == ~full(q)

\* get_nowait() and put_nowait() return or raise at once: the tee is ready to run
\* whatever the relay buffer holds.
put_ready(q) == TRUE

\* One chunk read while connected; `line` says whether it completes a non-empty line.
run_chunk(t, line) ==
    /\ At(t, "connected")
    /\ IF _stop_event
       THEN \* break, leave both `async with`, fail the loop test, return
            /\ tasks' = [tasks EXCEPT ![t] = [pc |-> "done", cancel |-> FALSE]]
            /\ UNCHANGED <<_agent_queue, getters, uiq, _lines_read, _last_activity, dpc>>
            /\ UNCHANGED <<evicted, received>>
            /\ last' = Nop
       ELSE /\ _last_activity' = "stamp"
            /\ UNCHANGED tasks
            /\ IF line
               THEN /\ _lines_read < MaxEvents
                    /\ put_ready(_agent_queue)
                    /\ _lines_read' = _lines_read + 1
                    /\ LET e == _lines_read + 1
                           r == Tee(_agent_queue, getters, dpc, e)
                       IN  /\ _agent_queue' = r.q
                           /\ getters' = r.g
                           /\ dpc' = r.pcs
                           /\ evicted' = evicted \cup (Range(_agent_queue) \ Range(r.q))
                           /\ uiq' = Broadcast(uiq, _ui_queues, e)
                           /\ received' = [h \in Handles |->
                                             IF h \in DOMAIN uiq
                                             THEN received[h] \o
                                                  SubSeq(uiq'[h], Len(uiq[h]) + 1, Len(uiq'[h]))
                                             ELSE received[h]]
                           /\ last' = Op("accept", t, _agent_queue, <<>>, "-", e, 0)
               ELSE /\ UNCHANGED <<_agent_queue, getters, uiq, _lines_read, dpc>>
                    /\ UNCHANGED <<evicted, received>>
                    /\ last' = Nop
    /\ UNCHANGED <<_ui_queues, _task, _stop_event, _status, _last_error, spc>>
    /\ UNCHANGED <<drained, mark, addedAt, removedAt>>
    /\ UNCHANGED <<fram, ws>>


\* ---------------------------------------------------- the framing loop ----
\* Bytes and characters are named by strings; an ASCII byte and the character it
\* decodes to have the same name.
LF == "LF"
CR == "CR"
\* The two bytes of U+00E9 in UTF-8, the character, and U+FFFD.
Lead == "C3"
Trail == "A9"
EAcute == "U+00E9"
Replacement == "U+FFFD"
\* The characters str.lstrip() removes, of those modelled.
Whitespace == {" ", CR, LF}
\* The token of `line.startswith("data:")`.
Prefix == <<"d", "a", "t", "a", ":">>

\* What the byte string of a response body is made of.
Pieces == {<<"x">>, <<" ">>, <<LF>>, <<CR>>, Prefix, <<Lead, Trail>>}
RECURSIVE Join(_)
Join(ps) == IF ps = <<>> THEN <<>> ELSE Head(ps) \o Join(Tail(ps))
Bodies(n) == {Join(ps) : ps \in UNION {[1..k -> Pieces] : k \in 1..n}}
Inputs == Bodies(MaxPieces)
\* The longest chunk a read can return.
MaxChunk == MaxPieces * Len(Prefix)

\* raw.decode("utf-8", errors="replace") of one chunk: a byte of a sequence that
\* is not complete within the chunk decodes to U+FFFD.
RECURSIVE decode(_)
decode(raw) ==
    IF raw = <<>> THEN <<>>
    ELSE IF Head(raw) = Lead /\ Len(raw) >= 2 /\ raw[2] = Trail
         THEN <<EAcute>> \o decode(SubSeq(raw, 3, Len(raw)))
         ELSE IF Head(raw) \in {Lead, Trail}
              THEN <<Replacement>> \o decode(Tail(raw))
              ELSE <<Head(raw)>> \o decode(Tail(raw))

\* str.partition(c): the text before the first c, c, the text after it; the whole
\* text and two empty strings when there is no c.
partition(str, c) ==
    IF c \in Range(str)
    THEN LET i == CHOOSE k \in 1..Len(str) : str[k] = c /\ \A j \in 1..(k - 1) : str[j] # c
         IN  [line |-> SubSeq(str, 1, i - 1), sep |-> <<c>>,
              remainder |-> SubSeq(str, i + 1, Len(str))]
    ELSE [line |-> str, sep |-> <<>>, remainder |-> <<>>]

\* str.rstrip(chars)
RECURSIVE rstrip(_, _)
rstrip(str, chars) ==
    IF str # <<>> /\ str[Len(str)] \in chars
    THEN rstrip(SubSeq(str, 1, Len(str) - 1), chars)
    ELSE str

\* (mutant) the text after the prefix is kept as it is.
lstrip_none(str) == str

\* str.lstrip()
RECURSIVE lstrip(_)
lstrip(str) == IF str # <<>> /\ Head(str) \in Whitespace THEN lstrip(Tail(str)) ELSE str

startswith(str, p) == Len(str) >= Len(p) /\ SubSeq(str, 1, Len(p)) = p

\* The line as it is after `line.rstrip("\r\n")` and the removal of the prefix.
Strip(line) ==
    LET l == rstrip(line, {CR, LF})
    IN  IF startswith(l, Prefix) THEN lstrip(SubSeq(l, Len(Prefix) + 1, Len(l))) ELSE l

\* `while "\n" in partial or "\r" in partial`: the lines split off str and accepted
\* (appended to out), and what is left in `partial`.
RECURSIVE FrameLoop(_, _)
FrameLoop(str, out) ==
    IF LF \in Range(str) \/ CR \in Range(str)
    THEN LET byLF == partition(str, LF)
             cut == IF byLF.sep = <<>> THEN partition(str, CR) ELSE byLF
             line == Strip(cut.line)
         IN  FrameLoop(cut.remainder, IF line = <<>> THEN out ELSE Append(out, line))
    ELSE [partial |-> str, out |-> out]

\* k lines are accepted one after the other: counter, tee to the relay buffer,
\* tee to the listeners.
RECURSIVE AcceptAll(_, _)
AcceptAll(st, k) ==
    IF k = 0 THEN st
    ELSE LET e == st.n + 1
             r == Tee(st.q, st.g, st.pcs, e)
         IN  AcceptAll([q |-> r.q, g |-> r.g, pcs |-> r.pcs, n |-> e,
                        ui |-> Broadcast(st.ui, _ui_queues, e)], k - 1)

\* One chunk of n bytes is read while connected and goes through the framing loop.
run_read(t, n) ==
    /\ At(t, "connected")
    /\ ~_stop_event
    /\ n \in 1..Len(wire)
    /\ LET raw == SubSeq(wire, 1, n)
           f == FrameLoop(partial \o decode(raw), <<>>)
           a == AcceptAll([q |-> _agent_queue, g |-> getters, pcs |-> dpc,
                           n |-> _lines_read, ui |-> uiq], Len(f.out))
       IN  /\ wire' = SubSeq(wire, n + 1, Len(wire))
           /\ partial' = f.partial
           /\ framed' = framed \o f.out
           /\ _last_activity' = "stamp"
           /\ _lines_read' = a.n
           /\ _agent_queue' = a.q
           /\ getters' = a.g
           /\ dpc' = a.pcs
           /\ uiq' = a.ui
           /\ evicted' = evicted \cup
                           ((Range(_agent_queue) \cup ((_lines_read + 1)..a.n)) \ Range(a.q))
           /\ received' = [h \in Handles |->
                             IF h \in DOMAIN uiq
                             THEN received[h] \o SubSeq(a.ui[h], Len(uiq[h]) + 1, Len(a.ui[h]))
                             ELSE received[h]]
    /\ last' = Ret("read", t)
    /\ UNCHANGED <<_ui_queues, _task, tasks, _stop_event, _status, _last_error, spc>>
    /\ UNCHANGED <<drained, mark, addedAt, removedAt, sent, conns>>
    /\ UNCHANGED ws

\* -------------------------------------------------------------- drain ----
\* (mutant) `if` in place of `while`: at most one item is taken.
DrainLoop_once(q, lines) ==
    IF empty(q) THEN [q |-> q, lines |-> lines]
    ELSE [q |-> get_nowait(q), lines |-> Append(lines, Head(q))]

\* (mutant) the items are collected newest first.
RECURSIVE DrainLoop_lifo(_, _)
DrainLoop_lifo(q, lines) ==
    IF empty(q) THEN [q |-> q, lines |-> lines]
    ELSE DrainLoop_lifo(SubSeq(q, 1, Len(q) - 1), Append(lines, q[Len(q)]))

\* `while not self._agent_queue.empty(): lines.append(self._agent_queue.get_nowait())`
RECURSIVE DrainLoop(_, _)
DrainLoop(q, lines) ==
    IF empty(q) THEN [q |-> q, lines |-> lines]
    ELSE DrainLoop(get_nowait(q), Append(lines, Head(q)))

\* (mutant) the woken drain returns the first line without draining the rest.
AfterWake_first(q) == [q |-> get_nowait(q), lines |-> <<Head(q)>>]

\* (mutant) the woken get() returns the first item and leaves it in the queue.
AfterWake_peek(q) == DrainLoop(q, <<Head(q)>>)

\* (mutant) the line the woken get() returned is not appended to `lines`.
AfterWake_dropFirst(q) == DrainLoop(get_nowait(q), <<>>)

\* A woken get() returned: first_line is appended, then the loop drains the rest.
AfterWake(q) == DrainLoop(get_nowait(q), <<Head(q)>>)

\* drain() returns `lines` to caller c, leaving q in the relay buffer.
DrainReturn(c, q, lines) ==
    /\ _agent_queue' = q
    /\ drained' = drained \o lines
    /\ mark' = _lines_read
    /\ last' = Op("drain", c, _agent_queue, lines,
                  IF dpc[c] = "idle" THEN "call" ELSE dpc[c], 0, mark)

DrainFrame ==
    /\ UNCHANGED <<_ui_queues, uiq, _task, tasks, _stop_event, _status, _last_error,
                   _lines_read, _last_activity, spc>>
    /\ UNCHANGED <<evicted, received, addedAt, removedAt>>
    /\ UNCHANGED <<fram, ws>>

\* (mutant) the wait is entered on an empty buffer whatever wait_seconds is.
MustWait_ifEmpty(q, wait_seconds) == empty(q)

\* `if self._agent_queue.empty() and wait_seconds > 0`
MustWait(q, wait_seconds) == empty(q) /\ wait_seconds > 0

\* drain(wait_seconds) up to its await, or to its return when it does not wait.
drain_call(c, wait_seconds) ==
    /\ dpc[c] = "idle"
    /\ IF MustWait(_agent_queue, wait_seconds)
       THEN \* Queue.get() finds the queue empty: a getter is queued, the caller suspends
            /\ getters' = Append(getters, c)
            /\ dpc' = [dpc EXCEPT ![c] = "waiting"]
            /\ last' = Op("drain_wait", c, _agent_queue, <<>>, "-", 0, mark)
            /\ UNCHANGED <<_agent_queue, drained, mark>>
       ELSE /\ LET r == DrainLoop(_agent_queue, <<>>)
               IN  DrainReturn(c, r.q, r.lines)
            /\ UNCHANGED <<getters, dpc>>
    /\ DrainFrame

\* The timer of wait_for fires: the waiting coroutine is cancelled.  A pending getter
\* is cancelled and stays in the deque; a getter already woken keeps its result and
\* the cancellation is delivered when the coroutine resumes.
drain_timeout(c) ==
    /\ dpc[c] \in {"waiting", "woken"}
    /\ dpc' = [dpc EXCEPT ![c] = IF dpc[c] = "waiting" THEN "timedout" ELSE "woken_timedout"]
    /\ last' = Nop
    /\ UNCHANGED <<_agent_queue, getters, drained, mark>>
    /\ DrainFrame

\* A woken get() resumes: it takes the first item, or waits again if the queue is empty.
drain_resume_woken(c) ==
    /\ dpc[c] = "woken"
    /\ IF empty(_agent_queue)
       THEN /\ getters' = Append(getters, c)
            /\ dpc' = [dpc EXCEPT ![c] = "waiting"]
            /\ last' = Nop
            /\ UNCHANGED <<_agent_queue, drained, mark>>
       ELSE /\ LET r == AfterWake(_agent_queue)
               IN  DrainReturn(c, r.q, r.lines)
            /\ dpc' = [dpc EXCEPT ![c] = "idle"]
            /\ UNCHANGED getters
    /\ DrainFrame

\* A cancelled get() resumes: its getter leaves the deque; if the getter had been
\* woken and an item is there, the next getter is woken in its place.  TimeoutError
\* is swallowed and the loop drains what is buffered.
drain_resume_timeout(c) ==
    /\ dpc[c] \in {"timedout", "woken_timedout"}
    /\ LET w == IF dpc[c] = "woken_timedout" /\ ~empty(_agent_queue)
                THEN wakeup_next(RemoveGetter(getters, c), dpc)
                ELSE [g |-> RemoveGetter(getters, c), pcs |-> dpc]
           r == DrainLoop(_agent_queue, <<>>)
       IN  /\ getters' = w.g
           /\ dpc' = [w.pcs EXCEPT ![c] = "idle"]
           /\ DrainReturn(c, r.q, r.lines)
    /\ DrainFrame

\* ------------------------------------------------------ specification ----
\* The lifecycle calls.
Life ==
    \/ ensure_running
    \/ \E s \in Stoppers : stop_call(s)
    \/ \E s \in Stoppers : stop_resume(s)
    \/ \E s \in Stoppers : stop_timeout(s)

\* The steps of a background task that nobody cancelled.
Steps ==
    \/ \E t \in 1..MaxTasks : run_start(t)
    \/ \E t \in 1..MaxTasks : run_connect_ok(t)
    \/ \E t \in 1..MaxTasks : run_connect_fail(t)
    \/ \E t \in 1..MaxTasks : run_read_error(t)
    \/ \E t \in 1..MaxTasks : run_stream_end(t)
    \/ \E t \in 1..MaxTasks : run_backoff_done(t)
    \/ \E t \in 1..MaxTasks, line \in BOOLEAN : run_chunk(t, line)

\* The steps of the background tasks.
Run ==
    \/ Steps
    \/ \E t \in 1..MaxTasks : run_cancelled(t)

\* The push subscribers.
Listen ==
    \/ add_listener
    \/ \E q \in 0..MaxListeners : q \in {Foreign} \cup DOMAIN uiq /\ remove_listener(q)

\* The pull consumers in C.
Pull(C) ==
    \/ \E c \in C, wait_seconds \in {0, 1} : drain_call(c, wait_seconds)
    \/ \E c \in C : drain_timeout(c)
    \/ \E c \in C : drain_resume_woken(c)
    \/ \E c \in C : drain_resume_timeout(c)

\* The reader with its pull consumers.
Next == Life \/ Run \/ Pull(Callers)
Spec == Init /\ [][Next]_vars

\* The reader with the single pull consumer the design assumes.
NextSingle == Life \/ Run \/ Pull({1})
SingleSpec == Init /\ [][NextSingle]_vars

\* The reader with its push subscribers, never stopped.
NextListen == ensure_running \/ Steps \/ Listen
ListenSpec == Init /\ [][NextListen]_vars

\* The steps of a task whose connection stays up.
Stream ==
    \/ \E t \in 1..MaxTasks : run_start(t)
    \/ \E t \in 1..MaxTasks : run_connect_ok(t)
    \/ \E t \in 1..MaxTasks, line \in BOOLEAN : run_chunk(t, line)

\* The pull consumer whose waits are served before their timeout.
Poll ==
    \/ \E wait_seconds \in {0, 1} : drain_call(1, wait_seconds)
    \/ drain_resume_woken(1)

\* The reader on a connection that stays up, with its push subscribers and its
\* pull consumer, never stopped.
NextBoth == ensure_running \/ Stream \/ Listen \/ Poll
Both == Init /\ [][NextBoth]_vars

\* The reader with its push subscribers and the debug endpoint, never stopped.
NextDiag == ensure_running \/ Steps \/ Listen \/ get_diagnostics
Diag == Init /\ [][NextDiag]_vars

\* The lifecycle alone.  The event loop runs a ready callback: a stop() whose wait
\* is over (task finished, or grace timer fired) is resumed.  Nothing makes a
\* cancelled task finish.
NextLife == Life \/ Run
LifeFair ==
    /\ Init
    /\ [][NextLife]_vars
    /\ \A s \in Stoppers : WF_vars(stop_resume(s) \/ stop_timeout(s))

\* The lifecycle with the timers and the cancellations the event loop delivers: the
\* sleep of the backoff ends, and a cancelled task is resumed with CancelledError.
RetryFair ==
    /\ Init
    /\ [][NextLife]_vars
    /\ \A s \in Stoppers : WF_vars(stop_resume(s) \/ stop_timeout(s))
    /\ \A t \in 1..MaxTasks : WF_vars(run_backoff_done(t))
    /\ \A t \in 1..MaxTasks : WF_vars(run_cancelled(t))

\* The first connection of a reader just after its response arrived (`partial = ""`),
\* with the bytes the server is going to send.
Connected ==
    /\ _agent_queue = <<>>
    /\ getters = <<>>
    /\ _ui_queues = {}
    /\ uiq = <<>>
    /\ _task = 1
    /\ tasks = <<[pc |-> "connected", cancel |-> FALSE]>>
    /\ _stop_event = FALSE
    /\ _status = "connected"
    /\ _last_error = None
    /\ _lines_read = 0
    /\ _last_activity = "never"
    /\ dpc = [c \in Callers |-> "idle"]
    /\ spc = [s \in Stoppers |-> [pc |-> "idle", t |-> 0]]
    /\ evicted = {}
    /\ drained = <<>>
    /\ mark = 0
    /\ received = [h \in Handles |-> <<>>]
    /\ addedAt = [h \in Handles |-> -1]
    /\ removedAt = [h \in Handles |-> -1]
    /\ last = Nop
    /\ sent \in Inputs
    /\ wire = sent
    /\ partial = <<>>
    /\ framed = <<>>
    /\ conns = 1
    /\ ws = <<>>

\* The framing loop fed with chunks of any size.
NextChunks == \E n \in 1..MaxChunk : run_read(1, n)
Chunks == Connected /\ [][NextChunks]_vars

\* The framing loop fed as _run feeds it: iter_chunked(1), one byte per chunk.
NextBytes == run_read(1, 1)
Bytes == Connected /\ [][NextBytes]_vars

\* The reader over several connections, each with its own body read one byte per
\* chunk, that drop or end at any point.
NextReconnect ==
    \/ ensure_running
    \/ \E t \in 1..MaxTasks : run_start(t)
    \/ \E t \in 1..MaxTasks, body \in Bodies(BodyPieces) : run_connect_body(t, body)
    \/ \E t \in 1..MaxTasks : run_connect_fail(t)
    \/ \E t \in 1..MaxTasks : run_read(t, 1)
    \/ \E t \in 1..MaxTasks : run_read_error(t)
    \/ \E t \in 1..MaxTasks : run_stream_end(t)
    \/ \E t \in 1..MaxTasks : run_backoff_done(t)
Reconnect == Init /\ [][NextReconnect]_vars

\* The push-relay handlers.
Relay ==
    \/ ws_open
    \/ \E h \in 1..MaxHandlers : ws_resume(h)
    \/ \E h \in 1..MaxHandlers : ws_send_ok(h)
    \/ \E h \in 1..MaxHandlers, why \in {"disconnect", "error"} : ws_send_fail(h, why)
    \/ \E h \in 1..MaxHandlers : ws_timeout(h)
    \/ \E h \in 1..MaxHandlers : ws_cancelled(h)

\* What the event loop delivers to a handler: an item for its waiting get(), the
\* completion of its send, the timeout of its wait.
Deliver ==
    \E h \in 1..MaxHandlers :
        ws_resume(h) \/ ws_send_ok(h) \/ ws_send_fail(h, "disconnect") \/ ws_timeout(h)

\* The reader on connections that stay up, started and stopped, with the handlers
\* of its push subscribers.  The event loop runs a handler that is ready.
NextServe ==
    \/ ensure_running
    \/ \E s \in Stoppers : stop_call(s)
    \/ \E s \in Stoppers : stop_resume(s)
    \/ \E t \in 1..MaxTasks : run_start(t)
    \/ \E t \in 1..MaxTasks : run_connect_ok(t)
    \/ \E t \in 1..MaxTasks : _lines_read < MaxRelayed /\ run_chunk(t, TRUE)
    \/ \E t \in 1..MaxTasks : run_cancelled(t)
    \/ Relay
Serve ==
    /\ Init
    /\ [][NextServe]_vars
    /\ WF_vars(Deliver)

\* The reader started, stopped and started again on connections that may fail,
\* with push subscribers and a pull consumer that does not wait.
NextRestart ==
    \/ Life
    \/ \E t \in 1..MaxTasks : run_start(t)
    \/ \E t \in 1..MaxTasks : run_connect_ok(t)
    \/ \E t \in 1..MaxTasks : run_connect_fail(t)
    \/ \E t \in 1..MaxTasks : run_backoff_done(t)
    \/ \E t \in 1..MaxTasks : run_chunk(t, TRUE)
    \/ \E t \in 1..MaxTasks : run_cancelled(t)
    \/ add_listener
    \/ drain_call(1, 0)
Restart == Init /\ [][NextRestart]_vars

\* ============================================================ claims ====
Min(a, b) == IF a < b THEN a ELSE b
\* The events n+1 .. n+k, in acceptance order.
Run_of(n, k) == [i \in 1..k |-> n + i]
\* The k most recently accepted events, in acceptance order.
Newest(k) == Run_of(_lines_read - k, k)
Increasing(f) == \A i \in 1..(Len(f) - 1) : f[i] < f[i + 1]
Unfinished == {t \in 1..Len(tasks) : ~done(t)}

\* C1: the relay buffer never holds more than Capacity events, and accepting an
\* event while it holds exactly Capacity events removes exactly the oldest entry
\* and appends the new event at the tail (below capacity it only appends).
C1_BoundedDropOldest ==
    /\ Len(_agent_queue) <= Capacity
    /\ last.op = "accept" =>
          _agent_queue = IF Len(last.pre) = Capacity
                         THEN Append(Tail(last.pre), last.e)
                         ELSE Append(last.pre, last.e)

\* An event was accepted into a full relay buffer.
C1_Witness == last.op = "accept" /\ Len(last.pre) = Capacity

\* C2: when more than Capacity events were accepted since drain() last returned
\* (the buffer was empty then, as it is initially), the drain() that returns next
\* returns exactly the Capacity most recently accepted events, oldest first.
C2_DrainLastN ==
    (last.op = "drain" /\ _lines_read - last.m > Capacity) => last.res = Newest(Capacity)

\* A drain() returned after more than Capacity events since the previous return.
C2_Witness == last.op = "drain" /\ _lines_read - last.m > Capacity /\ Len(last.res) = Capacity

\* C3: a listener queue holds exactly the events accepted while it was registered,
\* each once and in acceptance order: none accepted before add_listener() returned
\* it, none accepted after remove_listener() removed it.
C3_ListenerGetsItsInterval ==
    \A h \in DOMAIN uiq :
        LET until == IF removedAt[h] = -1 THEN _lines_read ELSE removedAt[h]
        IN  /\ received[h] = Run_of(addedAt[h], until - addedAt[h])
            /\ uiq[h] = received[h]
            /\ (h \in _ui_queues) = (removedAt[h] = -1)

\* Two listeners, one added after the first event and removed before the last one.
C3_Witness ==
    /\ Len(uiq) = 2
    /\ addedAt[1] = 0 /\ removedAt[1] = -1 /\ Len(received[1]) >= 3
    /\ addedAt[2] >= 1 /\ removedAt[2] > addedAt[2] /\ _lines_read > removedAt[2]

\* C4: the concatenated drain() results list accepted events in acceptance order,
\* none twice, and the accepted events missing from them are exactly the evicted
\* ones and the ones still buffered.
C4_DrainedIsSubsequence ==
    /\ Increasing(drained)
    /\ Range(drained) \subseteq 1.._lines_read
    /\ (1.._lines_read) \ Range(drained) = evicted \cup Range(_agent_queue)
    /\ evicted \cap Range(_agent_queue) = {}
    /\ Increasing(_agent_queue)

\* Two drains returned events, and an event accepted between them was evicted.
C4_Witness ==
    /\ Len(drained) >= 2
    /\ evicted # {}
    /\ last.op = "drain" /\ last.m > 0 /\ last.res # <<>>
    /\ \E i \in 1..(Len(drained) - 1) : drained[i + 1] > drained[i] + 1

\* C5: at most one background task has not finished, whatever ensure_running() and
\* stop() calls were made, a task that stop() gave up waiting for included.
C5_OneUnfinishedTask == Cardinality(Unfinished) <= 1

\* The reader was restarted after a stop(), and a later stop() gave up on the new task.
C5_Witness ==
    /\ Len(tasks) = 2 /\ done(1) /\ ~done(2)
    /\ last.op = "stop" /\ spc[1].pc = "idle" /\ tasks[2].cancel

\* C6: is_running() is true whenever ensure_running() has just returned.
C6_RunningAfterEnsure == last.op = "ensure_running" => is_running

\* C7: when stop() has just returned, the status is "stopped" and is_running() is false.
C7_StoppedAfterStop == last.op = "stop" => (_status = "stopped" /\ ~is_running)

\* C8: a stop() that is waiting for its cancelled task eventually returns, also when
\* the task never finishes; giving up the wait leaves the task as it is (it is not
\* cancelled again and no new task is made).
C8_StopTerminates ==
    /\ \A s \in Stoppers : (spc[s].pc = "waiting") ~> (spc[s].pc = "idle")
    /\ [][\A s \in Stoppers :
            (spc[s].pc = "waiting" /\ spc'[s].pc = "idle") =>
                (tasks' = tasks /\ _task' = _task /\ _status' = "stopped")]_vars

\* stop() returned although the task it cancelled has not finished.
C8_Witness == last.op = "stop" /\ _task # 0 /\ ~done(_task) /\ tasks[_task].cancel

\* C9: drain() never suspends when the relay buffer holds something, and the list it
\* returns is the buffer as it was when the list was collected, oldest first, the
\* buffer being empty when it returns.
C9_DrainTakesAll ==
    /\ last.op = "drain_wait" => last.pre = <<>>
    /\ last.op = "drain" => (last.res = last.pre /\ _agent_queue = <<>>)

\* drain() was called on a buffer holding two events and returned without waiting.
C9_Witness == last.op = "drain" /\ last.via = "call" /\ Len(last.pre) >= 2

\* With a single pull consumer a drain() that finds the buffer empty is called
\* before any event is accepted after the previous return: the events accepted
\* during its wait are mark+1, mark+2, ... and the first of them wakes it.
Waited == last.op = "drain" /\ last.via # "call"
SinceCall == (last.m + 1).._lines_read

\* C10 (as claimed): a drain() that suspended and was woken before its timeout fired
\* returns a non-empty list containing the events accepted before the timeout (all
\* those accepted during the wait if the timer never fired, the waking one at least
\* if it fired later), and a drain() whose timeout fired before any event was
\* accepted returns the empty list.
C10_WaitedDrain ==
    /\ (Waited /\ last.via = "woken") =>
           (last.res # <<>> /\ SinceCall \subseteq Range(last.res))
    /\ (Waited /\ last.via = "woken_timedout") =>
           (last.res # <<>> /\ (last.m + 1) \in Range(last.res))
    /\ (Waited /\ last.via = "timedout") => last.res = <<>>

\* C10 (amended): a drain() that suspended returns the relay buffer as it is when
\* the call is resumed: the newest min(k, Capacity) of the k events accepted since
\* the call, oldest first.  It is empty exactly when k = 0, and a woken call finds
\* the buffer non-empty, so it returns at that resumption without the timeout.
C10_WaitedDrainAmended ==
    /\ Waited => last.res = Newest(Min(_lines_read - last.m, Capacity))
    /\ dpc[1] = "woken" => ~empty(_agent_queue)
    /\ dpc[1] = "waiting" => (empty(_agent_queue) /\ _lines_read = mark)

\* A woken drain() returned before its timeout fired, after the waking event was evicted.
C10_Witness ==
    /\ Waited /\ last.via = "woken"
    /\ last.res # <<>>
    /\ (last.m + 1) \notin Range(last.res)

\* C11: drain() can be called in every reader state and returns a list of accepted
\* events whenever it returns; drain(0) on an empty buffer returns the empty list
\* in the step of the call, without suspending and with no change to the reader.
C11_DrainNeverFails ==
    /\ [](\A c \in Callers : dpc[c] = "idle" => ENABLED drain_call(c, 0))
    /\ [](last.op = "drain" => last.res \in Seq(1.._lines_read))
    /\ [][\A c \in Callers :
            (empty(_agent_queue) /\ drain_call(c, 0)) =>
                /\ UNCHANGED prog
                /\ last'.op = "drain" /\ last'.via = "call" /\ last'.res = <<>>]_vars

\* drain(0) returned the empty list while the reader was backing off after an error.
C11_Witness ==
    /\ last.op = "drain" /\ last.via = "call" /\ last.pre = <<>> /\ last.res = <<>>
    /\ _status = "error" /\ _lines_read > 0

\* Task t goes from pc a to pc b in this step.
Moves(t, a, b) == t \in 1..Len(tasks) /\ tasks[t].pc = a /\ tasks'[t].pc = b

\* A stop() was called and has not returned, or has returned with no restart since.
StopRequested == _stop_event \/ \E s \in Stoppers : spc[s].pc = "waiting"

\* C12: a failure while connecting or reading sets the status to "error" with
\* last_error populated and leaves the task alive; a task only finishes after a
\* stop was requested; "error" leads to "connecting" unless a stop is requested,
\* and a successful attempt sets "connected", after which events are accepted;
\* when a stop is requested during the backoff, the task finishes and the status
\* becomes "stopped".
C12_ErrorThenRetry ==
    /\ [][\A t \in 1..MaxTasks :
            /\ (Moves(t, "connecting", "backoff") \/ Moves(t, "connected", "backoff")) =>
                  (_status' = "error" /\ _last_error' # None)
            /\ (t \in 1..Len(tasks) /\ tasks[t].pc # "done" /\ tasks'[t].pc = "done") =>
                  (_stop_event /\ _status' = _status)
            /\ Moves(t, "connecting", "connected") => _status' = "connected"]_vars
    /\ [](\A t \in 1..MaxTasks :
            (At(t, "connected") /\ ~_stop_event /\ _lines_read < MaxEvents) =>
                ENABLED run_chunk(t, TRUE))
    /\ (_status = "error" /\ ~StopRequested) ~> (_status = "connecting" \/ StopRequested)
    /\ (_status = "error") ~> (_status \in {"connecting", "stopped"})
    /\ \A t \in 1..MaxTasks :
            (t \in 1..Len(tasks) /\ tasks[t].pc = "backoff" /\ _stop_event) ~>
                (t \in 1..Len(tasks) /\ done(t) /\ _status = "stopped")

\* An event was accepted, then reading failed: the task is backing off, no stop requested.
C12_Witness ==
    /\ _status = "error" /\ _last_error # None /\ ~_stop_event
    /\ _task # 0 /\ tasks[_task].pc = "backoff" /\ ~tasks[_task].cancel
    /\ _lines_read > 0

\* The status becomes "stopped" only in the step in which a stop() call returns.
StoppedOnlyByStop == (_status # "stopped" /\ _status' = "stopped") => last'.op = "stop"

\* C13 (as claimed): the status becomes "stopped" only as the effect of stop(), and
\* once it is "stopped" no later step changes it.
C13_StoppedTerminal ==
    [][StoppedOnlyByStop /\ (_status = "stopped" => _status' = "stopped")]_vars

\* C13 (amended): the status becomes "stopped" only as the effect of stop(); once it
\* is "stopped", ensure_running(), drain() and the task stop() cancelled leave it
\* alone, and it changes only in a step of the task that ensure_running() started
\* after that stop() cancelled the previous one (a restart), which sets
\* "connecting", "connected" or "error".
C13_StoppedUntilRestart ==
    [][/\ StoppedOnlyByStop
       /\ (_status = "stopped" /\ _status' # "stopped") =>
             /\ _task # 0 /\ _task' = _task
             /\ ~tasks[_task].cancel
             /\ tasks'[_task].pc # tasks[_task].pc
             /\ _status' \in {"connecting", "connected", "error"}]_vars

\* ensure_running() restarted a stopped reader: the status is still "stopped" and
\* the new task has not run yet.
C13_Witness ==
    /\ _status = "stopped" /\ last.op = "ensure_running"
    /\ Len(tasks) = 2 /\ done(1) /\ _task = 2 /\ tasks[2].pc = "created"

\* The events the framing loop produces from the whole byte string as one chunk.
Whole(bs) == FrameLoop(decode(bs), <<>>).out

\* C14: whatever the cut of the byte string into chunks, the lines accepted once
\* every chunk went through the framing loop are the ones the loop produces from
\* the whole string as one chunk.
C14_ChunkingIndependent == wire = <<>> => framed = Whole(sent)

\* The bytes read so far, each decoded on its own as iter_chunked(1) delivers them.
ReadSoFar == LET bs == SubSeq(sent, 1, Len(sent) - Len(wire))
             IN  Join([i \in 1..Len(bs) |-> decode(<<bs[i]>>)])
\* The terminated lines of a text: it is cut at every LF and every CR, and what
\* follows the last terminator is not a line yet.
RECURSIVE TerminatedLines(_, _)
TerminatedLines(str, cur) ==
    IF str = <<>> THEN <<>>
    ELSE IF Head(str) \in {LF, CR}
         THEN <<cur>> \o TerminatedLines(Tail(str), <<>>)
         ELSE TerminatedLines(Tail(str), Append(cur, Head(str)))
\* The text from its first character that is not whitespace.
FromFirstVisible(str) ==
    LET i == CHOOSE k \in 1..(Len(str) + 1) :
                 /\ \A j \in 1..(k - 1) : str[j] \in Whitespace
                 /\ k = Len(str) + 1 \/ str[k] \notin Whitespace
    IN  SubSeq(str, i, Len(str))
\* The events one terminated line gives: none or one.
EventsOf(line) ==
    IF Len(line) >= 5 /\ SubSeq(line, 1, 5) = <<"d", "a", "t", "a", ":">>
    THEN LET text == FromFirstVisible(SubSeq(line, 6, Len(line)))
         IN  IF text = <<>> THEN <<>> ELSE <<text>>
    ELSE IF line = <<>> THEN <<>> ELSE <<line>>

\* C15: the lines accepted so far are, for each terminated line read so far and in
\* order: the line itself if it is not empty and does not start with "data:"; the
\* text after one "data:" without its leading whitespace if that text is not empty;
\* nothing for an empty line, for "data:" and for "data:" followed by whitespace.
C15_PerLineRule ==
    LET ls == TerminatedLines(ReadSoFar, <<>>)
    IN  framed = Join([i \in 1..Len(ls) |-> EventsOf(ls[i])])

\* "data: x" and a terminator were read, and the event "x" was accepted.
C15_Witness ==
    /\ sent = Prefix \o <<" ", "x", LF>>
    /\ wire = <<>>
    /\ framed = <<<<"x">>>>
    /\ _lines_read = 1 /\ _agent_queue = <<1>>

\* C16: the listener set is the set of handles add_listener() returned that were not
\* removed since; add_listener() returns a new empty queue and adds exactly it;
\* remove_listener(h) can be called with any handle, removes exactly h, and changes
\* neither the set nor any queue when h is not registered.
C16_ListenerSet ==
    /\ [](_ui_queues = {h \in DOMAIN uiq : removedAt[h] = -1})
    /\ [](\A q \in {Foreign} \cup DOMAIN uiq : ENABLED remove_listener(q))
    /\ [][(last'.op = "add_listener" /\ last' # last) =>
            LET h == last'.c
            IN  /\ h \notin DOMAIN uiq /\ h \notin _ui_queues
                /\ DOMAIN uiq' = DOMAIN uiq \cup {h}
                /\ uiq'[h] = <<>>
                /\ \A k \in DOMAIN uiq : uiq'[k] = uiq[k]
                /\ _ui_queues' = _ui_queues \cup {h}]_vars
    /\ [][last'.op = "remove_listener" =>
            /\ _ui_queues' = _ui_queues \ {last'.c}
            /\ uiq' = uiq
            /\ last'.c \notin _ui_queues => _ui_queues' = _ui_queues]_vars

\* remove_listener() was called with a queue that add_listener() never returned,
\* while a listener holding events and a removed one exist.
C16_Witness ==
    /\ last.op = "remove_listener" /\ last.c = Foreign
    /\ Len(uiq) = 2 /\ Cardinality(_ui_queues) = 1
    /\ \E h \in _ui_queues : uiq[h] # <<>>

Last(f) == f[Len(f)]

\* C17: a task that is reading can accept an event in every state, whether or not
\* the relay buffer is full and whatever the listener queues hold; the accepting
\* step puts the event at the tail of the relay buffer and of every registered
\* listener queue before anything else runs; and a consumer that never takes its
\* events changes nothing for the other kind: a listener queue holds the events
\* accepted while it was registered whatever was drained, and the relay buffer
\* holds the newest events since drain() last returned whatever the listeners hold.
C17_AcceptNeverWaits ==
    /\ \A t \in 1..Len(tasks) :
          (At(t, "connected") /\ ~_stop_event /\ _lines_read < MaxEvents) =>
              ENABLED run_chunk(t, TRUE)
    /\ last.op = "accept" =>
          /\ _lines_read = last.e
          /\ Last(_agent_queue) = last.e
          /\ \A h \in _ui_queues : uiq[h] # <<>> /\ Last(uiq[h]) = last.e
    /\ \A h \in DOMAIN uiq :
          uiq[h] = Run_of(addedAt[h],
                          (IF removedAt[h] = -1 THEN _lines_read ELSE removedAt[h]) - addedAt[h])
    /\ _agent_queue = Newest(Min(_lines_read - mark, Capacity))

\* An event was accepted into a full relay buffer that was never drained, while a
\* listener queue held three unread events.
C17_Witness ==
    /\ last.op = "accept" /\ Len(last.pre) = Capacity /\ drained = <<>> /\ mark = 0
    /\ \E h \in _ui_queues : Len(uiq[h]) >= 4

\* C18: get_diagnostics() can be called in every state; it returns the status, the
\* url, last_error, the counter, last_activity, the depth of the relay buffer, the
\* number of listeners and whether the task is unfinished, as they are; and the
\* step that returns changes no field of the reader.
C18_DiagnosticsPure ==
    /\ [](ENABLED get_diagnostics)
    /\ [](last.op = "get_diagnostics" =>
            /\ last.diag.status = _status
            /\ last.diag.url = url
            /\ last.diag.last_error = _last_error
            /\ last.diag.lines_read_total = _lines_read
            /\ last.diag.last_activity = _last_activity
            /\ last.diag.agent_queue_size = Len(_agent_queue)
            /\ last.diag.active_listeners = Cardinality(_ui_queues)
            /\ last.diag.task_running = (_task # 0 /\ ~done(_task)))
    /\ [][last'.op = "get_diagnostics" =>
            UNCHANGED <<_status, _last_error, _lines_read, _last_activity, _agent_queue,
                        getters, _ui_queues, uiq, _task, tasks, _stop_event, dpc, spc>>]_vars

\* The snapshot was taken while the reader backed off with one event buffered and
\* one of two listeners removed.
C18_Witness ==
    /\ last.op = "get_diagnostics"
    /\ last.diag.status = "error" /\ last.diag.last_error # None
    /\ last.diag.agent_queue_size = 1 /\ last.diag.lines_read_total = 1
    /\ last.diag.active_listeners = 1 /\ Len(uiq) = 2
    /\ last.diag.task_running

\* The edges of the documented state machine, the ones into "stopped" apart.
DocumentedEdges ==
    {<<"initialized", "starting">>, <<"starting", "connecting">>,
     <<"connecting", "connected">>, <<"connecting", "error">>,
     <<"connected", "error">>, <<"error", "connecting">>}
\* The changes this step makes to the status field, as pairs <<from, to>>: the first
\* step of a task writes "starting" and then "connecting", any other step writes
\* the field at most once.
StatusChanges ==
    IF \E t \in 1..Len(tasks) : Moves(t, "created", "connecting")
    THEN {<<_status, "starting">>, <<"starting", "connecting">>} \ {<<"starting", "starting">>}
    ELSE IF _status' # _status THEN {<<_status, _status'>>} ELSE {}

\* C19: every change of the status field is an edge of the documented state
\* machine, or a change to "stopped" made by stop().
C19_DocumentedEdgesOnly ==
    [][\A w \in StatusChanges :
          \/ w \in DocumentedEdges
          \/ w[2] = "stopped" /\ last'.op = "stop"]_vars

\* C20: the status is "connected" only with last_error None and "error" only with
\* last_error set; last_error is set back to None only by the step in which a
\* connection succeeds, so it is kept while the reader reconnects and through stop().
C20_LastError ==
    /\ [](_status = "connected" => _last_error = None)
    /\ [](_status = "error" => _last_error # None)
    /\ [][(_last_error # None /\ _last_error' = None) =>
            /\ _status' = "connected"
            /\ \E t \in 1..Len(tasks) : Moves(t, "connecting", "connected")]_vars
    /\ [][last'.op = "stop" => _last_error' = _last_error]_vars

\* A reader that failed was stopped and restarted: the new task is connecting and
\* the error of the old one is still recorded.
C20_Witness ==
    /\ _last_error # None /\ _status = "connecting"
    /\ Len(tasks) = 2 /\ done(1) /\ tasks[2].pc = "connecting"
    /\ \A s \in Stoppers : spc[s].pc = "idle"

\* C21: within one task every connection attempt after the first follows the
\* backoff sleep: a task enters "connecting" from its start or from the backoff,
\* whatever ended its previous connection.
C21_BackoffBeforeReconnect ==
    [][\A t \in 1..Len(tasks) :
          (tasks[t].pc # "connecting" /\ tasks'[t].pc = "connecting") =>
              tasks[t].pc \in {"created", "backoff"}]_vars

\* C22: the next step of a task that was cancelled, wherever it is suspended, ends
\* it and writes neither the status nor last_error; a task that ended takes no
\* further step (no backoff, no new attempt).
C22_CancellationEndsTask ==
    [][\A t \in 1..Len(tasks) :
          /\ (tasks[t].cancel /\ tasks[t].pc # "done" /\ tasks'[t] # tasks[t]) =>
                /\ tasks'[t].pc = "done"
                /\ _status' = _status
                /\ _last_error' = _last_error
          /\ tasks[t].pc = "done" => tasks'[t].pc = "done"]_vars

\* A task cancelled during its backoff sleep has ended; stop() has not resumed yet
\* and the status is the one the task left.
C22_Witness ==
    /\ Len(tasks) >= 1 /\ done(1)
    /\ _status = "error" /\ _last_error # None
    /\ spc[1].pc = "waiting" /\ spc[1].t = 1

\* What follows the last terminator of a text.
RECURSIVE UnterminatedTail(_, _)
UnterminatedTail(str, cur) ==
    IF str = <<>> THEN cur
    ELSE IF Head(str) \in {LF, CR}
         THEN UnterminatedTail(Tail(str), <<>>)
         ELSE UnterminatedTail(Tail(str), Append(cur, Head(str)))
\* The events the terminated lines of a text give.
LineEvents(str) ==
    LET ls == TerminatedLines(str, <<>>)
    IN  Join([i \in 1..Len(ls) |-> EventsOf(ls[i])])

\* C23: a connection starts with an empty `partial`; the step in which a connection
\* drops or ends accepts nothing; and on every connection `partial` is what follows
\* the last terminator read on that connection and the lines accepted on it are
\* those of the bytes read on it, so nothing read on an earlier connection is part
\* of an event.
C23_FramingPerConnection ==
    /\ [](partial = UnterminatedTail(ReadSoFar, <<>>))
    /\ [](Len(framed) = Len(LineEvents(ReadSoFar)) /\ framed = LineEvents(ReadSoFar))
    /\ [][\A t \in 1..Len(tasks) :
            /\ Moves(t, "connecting", "connected") => partial' = <<>>
            /\ (tasks[t].pc = "connected" /\ tasks'[t].pc # "connected") =>
                  (_lines_read' = _lines_read /\ _agent_queue' = _agent_queue /\ uiq' = uiq)]_vars

\* The first connection dropped after "x" with no terminator; the second one sent
\* "x" and LF, and the line accepted on it is "x".
C23_Witness ==
    /\ conns = 2 /\ _last_error = None
    /\ sent = <<"x", LF>> /\ wire = <<>>
    /\ framed = <<<<"x">>>>
    /\ _lines_read = 1 /\ _last_activity = "stamp"

\* A sequence without repetition.
NoDuplicates(f) == Cardinality(Range(f)) = Len(f)

\* C24: with the drain() calls of several callers in flight, waiting or not, and
\* events accepted in between, no event is returned twice, by one call or by two;
\* the list a call returns is in acceptance order and is taken from the front of
\* the relay buffer, none of it staying behind; and the relay buffer never holds
\* more than Capacity events nor one event twice.
C24_ConcurrentDrains ==
    /\ [](NoDuplicates(drained))
    /\ [](Len(_agent_queue) <= Capacity /\ NoDuplicates(_agent_queue))
    /\ [][last'.op = "drain" =>
            /\ Increasing(last'.res)
            /\ _agent_queue = last'.res \o _agent_queue'
            /\ Range(last'.res) \cap Range(drained) = {}
            /\ Range(last'.res) \cap Range(_agent_queue') = {}]_vars

\* Both callers were waiting and each was woken by an event; the second caller
\* resumed first and was returned both events, the first is still to resume.
C24_Witness ==
    /\ last.op = "drain" /\ last.c = 2 /\ last.via = "woken"
    /\ Len(last.res) = 2
    /\ dpc[1] = "woken"

\* The handlers that have not returned.
InLoop == {h \in DOMAIN ws : ws[h].pc # "exited"}

\* A handler holds one listener of its own, registered for as long as it is in its
\* loop and removed once it has returned, whatever made it return.
OneListenerEach ==
    /\ \A h \in DOMAIN ws : (h \in InLoop) <=> (ws[h].q \in _ui_queues)
    /\ \A g, h \in DOMAIN ws : g # h => ws[g].q # ws[h].q
    /\ Cardinality(_ui_queues) = Cardinality(InLoop)

\* C25 (as claimed): a handler holds one listener of its own, removed when it
\* returns; and once stop() was called there comes a state in which every handler
\* (those that were waiting on their queues included) has returned and the
\* listener set is empty.
C25_HandlersExitAfterStop ==
    /\ []OneListenerEach
    /\ _stop_event ~> (InLoop = {} /\ _ui_queues = {})

\* C25 (amended): a handler holds one listener of its own, removed when it returns;
\* and once stop() was called there comes a state in which every handler (those
\* that were waiting on their queues included) has returned and the listener set
\* is empty, unless ensure_running() starts a new task first: a
\* handler only tests is_running() when its one-second wait runs out, and does not
\* see a stop followed by a restart within it.
C25_HandlersExitUnlessRestarted ==
    /\ []OneListenerEach
    /\ _stop_event ~> ((InLoop = {} /\ _ui_queues = {}) \/ ~_stop_event)

\* Two handlers relayed events; after stop() the wait of the last one ran out, it
\* found the reader not running and returned, and no listener is left.
C25_Witness ==
    /\ last.op = "ws_exit"
    /\ _stop_event /\ _status = "stopped"
    /\ Len(ws) >= 2 /\ InLoop = {}
    /\ _ui_queues = {}
    /\ _lines_read >= 1 /\ received[1] # <<>> /\ received[2] # <<>>

\* C26: whenever the status is "stopped", is_running() is false, and no step taken
\* with the status "stopped" accepts an event (an accepting step leaves the status
\* as it found it).
C26_StoppedIsQuiet == _status = "stopped" => (~is_running /\ last.op # "accept")

\* C27: the counter moves in accepting steps only and by one, the event accepted
\* being the one it then numbers; no other step (drain, stop, restart, a task
\* ending) changes it; and it always equals the number of events drain() calls
\* returned plus the number evicted plus the number in the relay buffer.
C27_CounterExact ==
    /\ [](_lines_read = Len(drained) + Cardinality(evicted) + Len(_agent_queue))
    /\ [][IF last'.op = "accept"
          THEN /\ _lines_read' = _lines_read + 1
               /\ last'.e = _lines_read'
               /\ Last(_agent_queue') = last'.e
          ELSE _lines_read' = _lines_read]_vars

\* Three events were accepted, one of them evicted; a drain returned the other
\* two; the reader was stopped and started again, and its second task accepted
\* the fourth event, which is in the relay buffer.
C27_Witness ==
    /\ last.op = "accept" /\ last.c = 2 /\ last.e = 4
    /\ _lines_read = 4
    /\ Len(drained) = 2 /\ Cardinality(evicted) = 1 /\ Len(_agent_queue) = 1

\* A step of stop() or of ensure_running(): the stop flag, the state of a stop()
\* call or the current task changes, or one of the two returns.
LifecycleStep ==
    \/ _stop_event' # _stop_event
    \/ spc' # spc
    \/ _task' # _task
    \/ last'.op \in {"stop", "ensure_running"}

\* C28: no step of stop() or of ensure_running() changes the relay buffer, the
\* listener set, a listener queue, the counter or last_error; what drain() calls
\* returned so far followed by what is buffered is always in acceptance order, so
\* events buffered before a stop() come out ahead of those accepted after a
\* restart; and a drain() made when the reader was stopped or restarted returns
\* the whole buffer.
C28_StopRestartFrame ==
    /\ [][LifecycleStep =>
            UNCHANGED <<_agent_queue, _ui_queues, uiq, _lines_read, _last_error>>]_vars
    /\ [](Increasing(drained \o _agent_queue))
    /\ [][(last'.op = "drain" /\ (_stop_event \/ Len(tasks) >= 2)) =>
            (last'.res = _agent_queue /\ _agent_queue' = <<>>)]_vars

\* The first task failed to connect, connected and accepted an event for a
\* listener; after stop() and a restart the second task accepted another event,
\* and the drain() made then returned both, the older one first.
C28_Witness ==
    /\ last.op = "drain" /\ last.res = <<1, 2>>
    /\ Len(tasks) = 2 /\ done(1)
    /\ _ui_queues # {} /\ uiq[1] = <<1, 2>>

====
